---- MODULE Spec2Model ----
(***************************************************************************)
(* Chat session orchestration of the shop chat agent: the chat route       *)
(* (handleChatRequest / handleChatSession), the Claude stream adapter      *)
(* (streamConversation), the SSE stream manager (createSseStream) and the  *)
(* PKCE authorization URL (generateAuthUrl).                               *)
(*                                                                         *)
(* One behaviour is one incoming chat request, from its arrival to the     *)
(* response or the closing of the stream, together with the conversation   *)
(* store's non-awaited writes and read-only history requests.              *)
(*                                                                         *)
(* normalizeContent, the buffered stream and handleStreamingError are also *)
(* called on their own (NormalizeSpec, BufferedSpec, ClassifySpec).        *)
(* LaterSpec is a request on a conversation whose earlier session lost a   *)
(* store write; ConcurrentSpec is several requests in flight at once, from *)
(* their arrival to their first model invocation.                          *)
(***************************************************************************)
EXTENDS Integers, Sequences, FiniteSets, TLC

VARIABLES
    pc,                \* position of the request in handleChatRequest / handleChatSession
    request,           \* the incoming request: body.message, body.conversation_id, Accept
    userMessage,       \* rawMessage.trim()
    conversationId,    \* body.conversation_id or Date.now().toString()
    customerToken,     \* TRUE iff getCustomerToken(conversationId) has an accessToken
    codeVerifiers,     \* the stored PKCE verifiers: a set of [state, verifier]
    authResponse,      \* what generateAuthUrl returned
    tools,             \* mcpClient.tools after the connection attempt
    store,             \* Conversation Store: conversation id -> sequence of stored turns
    pending,           \* store writes issued and not awaited, not yet completed
    conversationHistory, \* WorkingHistory
    productsToDisplay, \* the product-display accumulator
    finalMessage,      \* the last message returned by streamConversation
    safetyCounter,     \* the loop counter
    toolIdx,           \* index of the content block the adapter's tool loop is at
    events,            \* every payload handed to stream.sendMessage, in order
    closed,            \* the SSE controller was closed
    response,          \* the HTTP response of the request
    thrown,            \* the error that left handleChatSession
    modelCalls,        \* invocations of streamConversation in this session
    toolCalls,         \* calls of mcpClient.callTool in this session, in order
    stopLog,           \* the stop reason of each completed round of this session
    faults,            \* departures from the plain course so far (see MaxFaults)
    historyResponse,   \* the body of the last history request served
    call,              \* a function of the modules called on its own: arguments and results
    clientGone         \* whether the SSE client went away, and after how many payloads

vars == <<pc, request, userMessage, conversationId, customerToken,
          codeVerifiers, authResponse, tools, store, pending, conversationHistory,
          productsToDisplay, finalMessage, safetyCounter, toolIdx, events, closed,
          response, thrown, modelCalls, toolCalls, stopLog, faults,
          historyResponse, call, clientGone>>

----------------------------------------------------------------------------
(* Bounds of the model *)

\* tool_use blocks in one model response
MaxToolsPerMessage == 2
\* departures from the plain course during one chat request: a tool call with a
\* Failure outcome, a round stopped by "max_tokens", a response with more than
\* one tool_use block, a store write that fails and is swallowed, a store write
\* overtaken by a later one, an SSE client that goes away
MaxFaults == 1
\* const maxTurns = 6
maxTurns == 6

----------------------------------------------------------------------------
(* Strings are sequences of word tokens; a blank is the token " ". *)

None == [t |-> "undefined"]
Null == [t |-> "null"]
Str(s) == [t |-> "string", kind |-> "raw", s |-> s]
\* the JSON text of a value that is not a scalar
JsonStr(v) == [t |-> "string", kind |-> "json", v |-> v]
Num(n) == [t |-> "number", n |-> n]
Arr(items) == [t |-> "array", items |-> items]

ToLowerToken(w) ==
    CASE w = "Track" -> "track"
      [] w = "AUTH" -> "auth"
      [] w = "Key" -> "key"
      [] w = "Overloaded" -> "overloaded"
      [] OTHER -> w

\* String.prototype.toLowerCase on the tokens of a string
toLowerCase(s) == [i \in 1..Len(s) |-> ToLowerToken(s[i])]

\* s.includes(k): k occurs in s as a contiguous run
includes(s, k) ==
    \E i \in 0..(Len(s) - Len(k)) : \A j \in 1..Len(k) : s[i + j] = k[j]

RECURSIVE TrimStart(_)
TrimStart(s) == IF s /= <<>> /\ Head(s) = " " THEN TrimStart(Tail(s)) ELSE s

RECURSIVE TrimEnd(_)
TrimEnd(s) ==
    IF s /= <<>> /\ s[Len(s)] = " " THEN TrimEnd(SubSeq(s, 1, Len(s) - 1)) ELSE s

\* String.prototype.trim
trim(s) == TrimEnd(TrimStart(s))

\* JavaScript truthiness
Truthy(v) ==
    CASE v.t = "string" -> (v.kind = "json" \/ v.s /= <<>>)
      [] v.t = "number" -> v.n /= 0
      [] v.t = "null" -> FALSE
      [] v.t = "undefined" -> FALSE
      [] OTHER -> TRUE

----------------------------------------------------------------------------
(* Content blocks, JSON and content normalization *)

TextBlock(text) == [t |-> "object", type |-> "text", text |-> text]
ToolUseBlock(id, name) == [t |-> "object", type |-> "tool_use", id |-> id, name |-> name]
ToolResultBlock(id, content, isError) ==
    [t |-> "object", type |-> "tool_result", tool_use_id |-> id, content |-> content,
     is_error |-> isError]

\* JSON.stringify(v): a scalar has its literal, anything else its JSON text
JSONstringify(v) ==
    CASE v.t = "number" /\ v.n = 0 -> Str(<<"0">>)
      [] v.t = "number" /\ v.n = 1 -> Str(<<"1">>)
      [] v.t = "null" -> Str(<<"null">>)
      [] v.t = "string" /\ v.kind = "raw" /\ v.s = <<>> -> Str(<<"\"\"">>)
      [] v = Arr(<<Num(1)>>) -> Str(<<"[1]">>)
      [] OTHER -> JsonStr(v)

\* JSON.parse(text): [ok |-> TRUE, v |-> value], or [ok |-> FALSE] for a SyntaxError
JSONparse(text) ==
    IF text.kind = "json" THEN [ok |-> TRUE, v |-> text.v]
    ELSE CASE text.s = <<"0">> -> [ok |-> TRUE, v |-> Num(0)]
           [] text.s = <<"1">> -> [ok |-> TRUE, v |-> Num(1)]
           [] text.s = <<"null">> -> [ok |-> TRUE, v |-> Null]
           [] text.s = <<"\"\"">> -> [ok |-> TRUE, v |-> Str(<<>>)]
           [] text.s = <<"[1]">> -> [ok |-> TRUE, v |-> Arr(<<Num(1)>>)]
           [] OTHER -> [ok |-> FALSE]

\* a normalization that wraps whatever it is given into a text block
normalizeContent_Wrap(content) == Arr(<<TextBlock(content)>>)

\* normalizeContent(content)
normalizeContent(content) ==
    IF content.t = "array" THEN content
    ELSE IF content.t = "object" /\ content.type /= "" THEN Arr(<<content>>)
    ELSE LET text == IF content.t = "string" THEN content
                     ELSE JSONstringify(IF Truthy(content) THEN content ELSE Str(<<>>))
         IN  Arr(<<TextBlock(text)>>)

\* One element of dbMessages.map(...): a stored turn as a turn of WorkingHistory
FormatDbMessage(dbMessage) ==
    LET parsed == JSONparse(dbMessage.content)
        content == IF parsed.ok THEN parsed.v ELSE dbMessage.content
        role == IF dbMessage.role = "assistant" THEN "assistant" ELSE "user"
    IN  [role |-> role, content |-> normalizeContent(content)]

\* conversationHistory = dbMessages.map(...)
SeedHistory(dbMessages) == [i \in 1..Len(dbMessages) |-> FormatDbMessage(dbMessages[i])]

----------------------------------------------------------------------------
(* The requests, the provider's responses and the collaborators' outcomes *)

\* body.message of the incoming request
Messages ==
    { None, Null, Num(5), Str(<<>>), Str(<<" ">>), Str(<<"hello">>),
      Str(<<"Track", "my", "order">>) }

\* body.conversation_id of the incoming request
ConversationIdInputs == { Str(<<"c1">>) }

\* Date.now().toString() at the arrival of the request
Clock == { "1762146000000" }

ConversationIds == { "c1" } \cup Clock

Requests ==
    [message : Messages, conversation_id : ConversationIdInputs, now : Clock,
     shopId : {"shop1"}, wantsSse : BOOLEAN]

\* the tools the MCP servers offer
ToolCatalog == <<"search_shop_catalog">>

StopReasons == {"end_turn", "tool_use", "max_tokens"}

\* The content of a model response: a text block, then n tool_use blocks whose
\* ids continue the ids already used in the session.
ResponseContent(n, used) ==
    Arr(<<TextBlock(Str(<<"Hi">>))>> \o [k \in 1..n |-> ToolUseBlock(used + k, ToolCatalog[1])])

\* The final messages the provider may return, given the offered tools
Responses(offered, used) ==
    { [role |-> "assistant", stop_reason |-> Str(<<r>>), content |-> ResponseContent(0, used)] :
        r \in StopReasons \ {"tool_use"} }
    \cup { [role |-> "assistant", stop_reason |-> None, content |-> ResponseContent(0, used)] }
    \cup { [role |-> "assistant", stop_reason |-> Str(<<r>>), content |-> ResponseContent(n, used)] :
             r \in IF offered = <<>> THEN {} ELSE {"tool_use", "end_turn"},
             n \in 1..MaxToolsPerMessage }

\* 1 if the message carries more than one tool_use block
ManyTools(message) ==
    IF Cardinality({k \in 1..Len(message.content.items) :
                      message.content.items[k].type = "tool_use"}) > 1 THEN 1 ELSE 0

\* Errors: error.status (0 when the error has none) and error.message
Error(status, message) == [status |-> status, message |-> message]

\* what the provider's SDK throws
ModelErrors ==
    { Error(401, <<"invalid", "api", "Key">>),
      Error(429, <<"rate", "limit">>),
      Error(529, <<"Overloaded">>),
      Error(0, <<"Connection", "error">>) }

\* the errors that can interrupt a stream already open: they carry no HTTP status
StreamErrors == { e \in ModelErrors : e.status = 0 }

StoreError == Error(0, <<"database", "unavailable">>)
GatewayError == Error(0, <<"fetch", "failed">>)
InvalidUrlError == Error(0, <<"Invalid", "URL">>)

\* what mcpClient.callTool resolves to
ToolOutcomes ==
    { [error |-> None, content |-> Str(<<"found">>), displayItems |-> <<"p1">>],
      [error |-> Str(<<"not", "found">>), content |-> None, displayItems |-> <<>>] }

\* PKCE: the verifiers generateCodeVerifier may draw, and their SHA-256 digests
Verifiers == {"v1", "v2"}

generateCodeChallenge(verifier) ==
    CASE verifier = "v1" -> "sha256-v1"
      [] verifier = "v2" -> "sha256-v2"

----------------------------------------------------------------------------
(* Authorization gate *)

accountKeywords ==
    { <<"my", "account">>, <<"my", "orders">>, <<"my", "order">>, <<"order", "history">>,
      <<"order", "status">>, <<"tracking">>, <<"track", "my", "order">>,
      <<"my", "purchases">>, <<"my", "profile">>, <<"account", "info">>,
      <<"customer", "info">>, <<"my", "details">>, <<"my", "information">>,
      <<"login">>, <<"sign", "in">> }

isAccountDataRequest(message) ==
    LET lowerMessage == toLowerCase(message.s)
    IN  \E keyword \in accountKeywords : includes(lowerMessage, keyword)

\* the URL generateAuthUrl builds on a base that parses as a URL
AuthUrl(base, state, challenge) ==
    [base |-> base, state |-> state, code_challenge |-> challenge,
     code_challenge_method |-> "S256"]

\* the text of the authorization prompt, the URL embedded
AuthMessage(url) ==
    Str(<<"authorize", url.base, "state", url.state, "code_challenge", url.code_challenge,
          "code_challenge_method", url.code_challenge_method>>)

----------------------------------------------------------------------------
(* Event emitter *)

Event(type) == [type |-> type]
IdEvent(id) == [type |-> "id", conversation_id |-> id]
ChunkEvent(text) == [type |-> "chunk", chunk |-> text]
ToolUseEvent(block) == [type |-> "tool_use", id |-> block.id, name |-> block.name]
ProductEvent(products) == [type |-> "product_results", products |-> products]
ErrorEvent(type, error, details) == [type |-> type, error |-> error, details |-> details]

\* a classification that looks at the rate-limit statuses and the overload marker
\* before it looks for an authentication failure
StreamingErrorEvent_RateFirst(error) ==
    IF error.status = 429 \/ error.status = 529 \/ includes(error.message, <<"Overloaded">>)
    THEN ErrorEvent("rate_limit_exceeded", "Rate limit exceeded", <<"Please try again later">>)
    ELSE IF error.status = 401 \/ includes(toLowerCase(error.message), <<"auth">>)
            \/ includes(toLowerCase(error.message), <<"key">>)
    THEN ErrorEvent("error", "Authentication failed with Claude API",
                    <<"Please check your API key in environment variables">>)
    ELSE ErrorEvent("error", "Failed to get response from Claude",
                    IF error.message /= <<>> THEN error.message ELSE <<"Unknown error">>)

\* handleStreamingError of the SSE stream manager: the event it sends
StreamingErrorEvent(error) ==
    LET status == error.status
        message == error.message
    IN  IF status = 401 \/ includes(toLowerCase(message), <<"auth">>)
           \/ includes(toLowerCase(message), <<"key">>)
        THEN ErrorEvent("error", "Authentication failed with Claude API",
                        <<"Please check your API key in environment variables">>)
        ELSE IF status = 429 \/ status = 529 \/ includes(message, <<"Overloaded">>)
        THEN ErrorEvent("rate_limit_exceeded", "Rate limit exceeded", <<"Please try again later">>)
        ELSE ErrorEvent("error", "Failed to get response from Claude",
                        IF message /= <<>> THEN message ELSE <<"Unknown error">>)

RECURSIVE TextOf(_)
\* textChunks.join("") of the buffered stream
TextOf(evs) ==
    IF evs = <<>> THEN <<>>
    ELSE LET e == Head(evs)
         IN  (IF e.type = "chunk" THEN e.chunk.s ELSE <<>>) \o TextOf(Tail(evs))

RECURSIVE ProductsOf(_, _)
\* resultState.products of the buffered stream
ProductsOf(evs, acc) ==
    IF evs = <<>> THEN acc
    ELSE LET e == Head(evs)
         IN  ProductsOf(Tail(evs), IF e.type = "product_results" THEN e.products ELSE acc)

\* getResult() of the buffered stream
getResult(evs) == [text |-> TextOf(evs), events |-> evs, products |-> ProductsOf(evs, <<>>)]

----------------------------------------------------------------------------
(* Conversation store *)

StoredTurn(role, content) == [role |-> role, content |-> content]

\* saveMessage(conversationId, role, content), completed: the turn is appended
saveMessage(db, id, role, content) ==
    [db EXCEPT ![id] = Append(@, StoredTurn(role, content))]

\* getConversationHistory(conversationId)
getConversationHistory(db, id) == db[id]

\* The log an earlier session on the conversation left when the write of its
\* first assistant turn, which requested tool 1, failed: the user's message, the
\* tool result and the final assistant turn
OrphanResultLog ==
    <<StoredTurn("user", Str(<<"hello">>)),
      StoredTurn("user", JSONstringify(Arr(<<ToolResultBlock(1, Str(<<"found">>), FALSE)>>))),
      StoredTurn("assistant", JSONstringify(Arr(<<TextBlock(Str(<<"Hi">>))>>)))>>

\* The logs a conversation may hold when the request arrives: none, or the
\* exchange of an earlier request whose message was the text 0
PriorLogs ==
    { <<>>,
      <<StoredTurn("user", Str(<<"0">>)),
        StoredTurn("assistant", JSONstringify(Arr(<<TextBlock(Str(<<"Hi">>))>>)))>> }

\* a write issued and not awaited; n orders the writes of a session as issued
Write(n, id, role, content) == [n |-> n, id |-> id, role |-> role, content |-> content]

----------------------------------------------------------------------------
(* handleChatRequest *)

\* no request has arrived; conversation c1 holds one of the given logs
IdleOn(logs) ==
    /\ pc = "idle"
    /\ request = None
    /\ userMessage = None
    /\ conversationId = ""
    /\ customerToken = FALSE
    /\ codeVerifiers = {}
    /\ authResponse = None
    /\ tools = <<>>
    /\ \E prior \in logs :
         store = [id \in ConversationIds |-> IF id = "c1" THEN prior ELSE <<>>]
    /\ pending = {}
    /\ conversationHistory = <<>>
    /\ productsToDisplay = <<>>
    /\ finalMessage = None
    /\ safetyCounter = 0
    /\ toolIdx = 0
    /\ events = <<>>
    /\ closed = FALSE
    /\ response = None
    /\ thrown = None
    /\ modelCalls = 0
    /\ toolCalls = <<>>
    /\ stopLog = <<>>
    /\ faults = 0
    /\ historyResponse = None
    /\ clientGone = [gone |-> FALSE, sent |-> 0]

Idle == IdleOn(PriorLogs)

Init == Idle /\ call = None

\* the message taken as it comes, blanks included
TrimmedMessage_NoTrim(body) ==
    IF body.message.t = "string" THEN body.message ELSE Str(<<>>)

\* const userMessage = typeof rawMessage === "string" ? rawMessage.trim() : ""
TrimmedMessage(body) ==
    LET rawMessage == IF body.message \in {None, Null} THEN Str(<<>>) ELSE body.message
    IN  IF rawMessage.t = "string" THEN Str(trim(rawMessage.s)) ELSE Str(<<>>)

\* body.conversation_id, trimmed, or Date.now().toString()
ConversationIdOf(body) ==
    IF body.conversation_id.t = "string" /\ trim(body.conversation_id.s) /= <<>>
    THEN trim(body.conversation_id.s)[1]
    ELSE body.now

SessionVars ==
    <<customerToken, codeVerifiers, authResponse, tools, store, pending, conversationHistory,
      productsToDisplay, finalMessage, safetyCounter, toolIdx, events, closed, thrown,
      modelCalls, toolCalls, stopLog, faults, historyResponse, call, clientGone>>

\* A chat request arrives: validation, conversation id, choice of the stream
HandleChatRequest(req) ==
    /\ pc = "idle"
    /\ request' = req
    /\ userMessage' = TrimmedMessage(req)
    /\ IF ~Truthy(userMessage')
       THEN /\ response' = [status |-> 400, body |-> [error |-> <<"Message is required">>]]
            /\ conversationId' = conversationId
            /\ pc' = "done"
       ELSE /\ conversationId' = ConversationIdOf(req)
            /\ response' = IF req.wantsSse
                           THEN [status |-> 200, body |-> [stream |-> "text/event-stream"]]
                           ELSE response
            /\ pc' = "gate"
    /\ UNCHANGED SessionVars

----------------------------------------------------------------------------
(* handleChatSession: the authorization short-circuit *)

\* if (isAccountDataRequest(userMessage)) { if (!isAuthenticated) ...
NeedsAuthorization(message, token) == isAccountDataRequest(message) /\ ~token

\* the gate; getCustomerToken is read only for an account-data request
AccountGate ==
    /\ pc = "gate"
    /\ \E token \in BOOLEAN :
         /\ customerToken' = IF isAccountDataRequest(userMessage) THEN token ELSE customerToken
         /\ isAccountDataRequest(userMessage) \/ ~token
    /\ pc' = IF NeedsAuthorization(userMessage, customerToken') THEN "auth_url" ELSE "connect"
    /\ UNCHANGED <<request, userMessage, conversationId, response, codeVerifiers, authResponse,
                   tools, store, pending, conversationHistory, productsToDisplay, finalMessage,
                   safetyCounter, toolIdx, events, closed, thrown, modelCalls, toolCalls,
                   stopLog, faults, historyResponse,
                   call, clientGone>>

\* generateAuthUrl(conversationId, shopId): the verifier is stored (a failure is
\* caught), the base URL read, the URL built; a base that does not parse takes the
\* string-concatenation fallback, whose result new URL(authUrl) rejects.
GenerateAuthUrl ==
    /\ pc = "auth_url"
    /\ \E verifier \in Verifiers, stored \in BOOLEAN, baseParses \in BOOLEAN :
         LET state == <<conversationId, "-", request.shopId>>
             challenge == generateCodeChallenge(verifier)
         IN  /\ (~stored) => faults < MaxFaults
             /\ faults' = IF stored THEN faults ELSE faults + 1
             /\ codeVerifiers' = IF stored
                                 THEN codeVerifiers \cup {[state |-> state, verifier |-> verifier]}
                                 ELSE codeVerifiers
             /\ IF baseParses
                THEN /\ authResponse' = [url |-> AuthUrl("https://accounts.shopify.com/oauth/authorize",
                                                         state, challenge),
                                         conversation_id |-> conversationId]
                     /\ thrown' = thrown
                     /\ pc' = "auth_save_user"
                ELSE /\ authResponse' = authResponse
                     /\ thrown' = InvalidUrlError
                     /\ pc' = "failed"
    /\ UNCHANGED <<request, userMessage, conversationId, response, customerToken, tools, store,
                   pending, conversationHistory, productsToDisplay, finalMessage, safetyCounter,
                   toolIdx, events, closed, modelCalls, toolCalls, stopLog, historyResponse,
                   call, clientGone>>

\* the user's message starts the conversation's log afresh
SaveUserTurn_Reset(db, id, message) == [db EXCEPT ![id] = <<StoredTurn("user", message)>>]

\* saveMessage(conversationId, 'user', userMessage)
SaveUserTurn(db, id, message) == saveMessage(db, id, "user", message)

\* saveMessage(conversationId, 'assistant', authMessage)
SaveAuthPrompt(db, id, authMessage) == saveMessage(db, id, "assistant", authMessage)

\* An awaited saveMessage: the store is as the write leaves it, or the write fails
\* and the rejection is thrown
AwaitedSave(written, next) ==
    \/ /\ store' = written
       /\ pc' = next
       /\ UNCHANGED <<thrown, faults>>
    \/ /\ thrown' = StoreError
       /\ pc' = "failed"
       /\ UNCHANGED <<store, faults>>

\* await saveMessage(conversationId, 'user', userMessage)
AuthSaveUser ==
    /\ pc = "auth_save_user"
    /\ AwaitedSave(SaveUserTurn(store, conversationId, userMessage), "auth_save_prompt")
    /\ UNCHANGED <<request, userMessage, conversationId, response, customerToken, codeVerifiers,
                   authResponse, tools, pending, conversationHistory, productsToDisplay,
                   finalMessage, safetyCounter, toolIdx, events, closed, modelCalls, toolCalls,
                   stopLog, historyResponse,
                   call, clientGone>>

\* the four events of the authorization prompt
AuthEvents(id, authMessage) ==
    <<IdEvent(id), ChunkEvent(authMessage), Event("message_complete"), Event("done")>>

\* await saveMessage(conversationId, 'assistant', authMessage), then the events
AuthSavePrompt ==
    /\ pc = "auth_save_prompt"
    /\ AwaitedSave(SaveAuthPrompt(store, conversationId, AuthMessage(authResponse.url)),
                   "returned")
    /\ events' = IF pc' = "returned"
                 THEN events \o AuthEvents(conversationId, AuthMessage(authResponse.url))
                 ELSE events
    /\ UNCHANGED <<request, userMessage, conversationId, response, customerToken, codeVerifiers,
                   authResponse, tools, pending, conversationHistory, productsToDisplay,
                   finalMessage, safetyCounter, toolIdx, closed, modelCalls, toolCalls,
                   stopLog, historyResponse,
                   call, clientGone>>

----------------------------------------------------------------------------
(* handleChatSession: the normal model turn *)

\* stream.sendMessage({type: 'id'}), then the connection to the MCP servers; a
\* failed connection leaves the session without tools
ConnectTools ==
    /\ pc = "connect"
    /\ events' = Append(events, IdEvent(conversationId))
    /\ tools' \in {<<>>, ToolCatalog}
    /\ pc' = "save_user"
    /\ UNCHANGED <<request, userMessage, conversationId, response, customerToken, codeVerifiers,
                   authResponse, store, pending, conversationHistory, productsToDisplay,
                   finalMessage, safetyCounter, toolIdx, closed, thrown, modelCalls, toolCalls,
                   stopLog, faults, historyResponse,
                   call, clientGone>>

\* await saveMessage(conversationId, 'user', userMessage)
SaveUserMessage ==
    /\ pc = "save_user"
    /\ AwaitedSave(SaveUserTurn(store, conversationId, userMessage), "fetch_history")
    /\ UNCHANGED <<request, userMessage, conversationId, response, customerToken, codeVerifiers,
                   authResponse, tools, pending, conversationHistory, productsToDisplay,
                   finalMessage, safetyCounter, toolIdx, events, closed, modelCalls, toolCalls,
                   stopLog, historyResponse,
                   call, clientGone>>

\* getConversationHistory and the map to content blocks; finalMessage and
\* safetyCounter are initialised
FetchHistory ==
    /\ pc = "fetch_history"
    /\ conversationHistory' = SeedHistory(getConversationHistory(store, conversationId))
    /\ productsToDisplay' = <<>>
    /\ finalMessage' = [role |-> "user", stop_reason |-> None,
                        content |-> normalizeContent(userMessage)]
    /\ safetyCounter' = 0
    /\ pc' = "loop"
    /\ UNCHANGED <<request, userMessage, conversationId, response, customerToken, codeVerifiers,
                   authResponse, tools, store, pending, toolIdx, events, closed, thrown,
                   modelCalls, toolCalls, stopLog, faults, historyResponse,
                   call, clientGone>>

\* the loop condition with the stop reason left out
LoopCondition_AnyStop(message, counter) == counter < maxTurns

\* the loop condition with the turn limit left out
LoopCondition_NoLimit(message, counter) == message.stop_reason /= Str(<<"end_turn">>)

\* while (finalMessage.stop_reason !== "end_turn" && safetyCounter < maxTurns)
LoopCondition(message, counter) ==
    message.stop_reason /= Str(<<"end_turn">>) /\ counter < maxTurns

\* The loop test: streamConversation is called, or the loop is left
LoopTest ==
    /\ pc = "loop"
    /\ IF LoopCondition(finalMessage, safetyCounter)
       THEN /\ modelCalls' = modelCalls + 1
            /\ pc' = "streaming"
       ELSE /\ modelCalls' = modelCalls
            /\ pc' = "exit"
    /\ UNCHANGED <<request, userMessage, conversationId, response, customerToken, codeVerifiers,
                   authResponse, tools, store, pending, conversationHistory, productsToDisplay,
                   finalMessage, safetyCounter, toolIdx, events, closed, thrown, toolCalls,
                   stopLog, faults, historyResponse,
                   call, clientGone>>

\* the tool_use blocks of the history: the ids the provider has used
RECURSIVE ToolUses(_)
ToolUses(history) ==
    IF history = <<>> THEN 0
    ELSE Cardinality({i \in 1..Len(Head(history).content.items) :
                        Head(history).content.items[i].t = "object"
                        /\ Head(history).content.items[i].type = "tool_use"})
         + ToolUses(Tail(history))

\* 1 if a write issued now overtakes a write still in flight
Overtaking(writes) == IF writes = {} THEN 0 ELSE 1

\* the events of a streamed message whose message handler stays silent
StreamEvents_NoComplete(message) ==
    LET texts == SelectSeq(message.content.items, LAMBDA b : b.type = "text")
    IN  [i \in 1..Len(texts) |-> ChunkEvent(texts[i].text)]

\* the events of one streamed message: onText per text delta, onContentBlock per
\* text block, onMessage once
StreamEvents(message) ==
    LET texts == SelectSeq(message.content.items, LAMBDA b : b.type = "text")
    IN  [i \in 1..Len(texts) |-> ChunkEvent(texts[i].text)]
        \o [i \in 1..Len(texts) |->
              [type |-> "content_block_complete", content_block |-> texts[i]]]
        \o <<Event("message_complete")>>

\* onMessage: the turn pushed to conversationHistory
OnMessageHistory(history, message) ==
    Append(history, [role |-> message.role, content |-> message.content])

\* onMessage: saveMessage(...) is called and not awaited
OnMessageWrite(writes, n, id, message) ==
    writes \cup {Write(n, id, message.role, JSONstringify(message.content))}

\* The provider streams one message: text deltas, content blocks, the message;
\* stream.finalMessage() resolves
ModelRespond ==
    /\ pc = "streaming"
    /\ \E message \in Responses(tools, ToolUses(conversationHistory)) :
         /\ faults' = faults + Overtaking(pending)
                       + (IF message.stop_reason = Str(<<"max_tokens">>) THEN 1 ELSE 0)
                       + ManyTools(message)
         /\ faults' <= MaxFaults
         /\ events' = events \o StreamEvents(message)
         /\ conversationHistory' = OnMessageHistory(conversationHistory, message)
         /\ pending' = OnMessageWrite(pending, Len(conversationHistory) + 1, conversationId,
                                      message)
         /\ finalMessage' = message
         /\ stopLog' = Append(stopLog, message.stop_reason)
    /\ toolIdx' = 1
    /\ pc' = "tools"
    /\ UNCHANGED <<request, userMessage, conversationId, response, customerToken, codeVerifiers,
                   authResponse, tools, store, productsToDisplay, safetyCounter, closed, thrown,
                   modelCalls, toolCalls, historyResponse,
                   call, clientGone>>

\* The provider's call throws, before the stream or after a first text delta
ModelThrow ==
    /\ pc = "streaming"
    /\ \E error \in ModelErrors, partial \in BOOLEAN :
         /\ partial => error \in StreamErrors
         /\ thrown' = error
         /\ events' = IF partial THEN Append(events, ChunkEvent(Str(<<"Hi">>))) ELSE events
    /\ pc' = "failed"
    /\ UNCHANGED <<request, userMessage, conversationId, response, customerToken, codeVerifiers,
                   authResponse, tools, store, pending, conversationHistory, productsToDisplay,
                   finalMessage, safetyCounter, toolIdx, closed, modelCalls, toolCalls, stopLog,
                   faults, historyResponse,
                   call, clientGone>>

----------------------------------------------------------------------------
(* streamConversation: the tool-use requests of the final message *)

IsToolUse(block) == block.t = "object" /\ block.type = "tool_use"

\* the indices, from i on, of the tool_use blocks of the message
ToolUseIndices(message, i) ==
    {k \in i..Len(message.content.items) : IsToolUse(message.content.items[k])}

Min(S) == CHOOSE x \in S : \A y \in S : x <= y

\* for (const content of finalMessage.content) if (content.type === "tool_use")
\* onToolUse(content): the tool_use event is sent and mcpClient.callTool called
ToolDispatch ==
    /\ pc = "tools"
    /\ ToolUseIndices(finalMessage, toolIdx) /= {}
    /\ LET k == Min(ToolUseIndices(finalMessage, toolIdx))
           block == finalMessage.content.items[k]
       IN  /\ toolIdx' = k
           /\ events' = Append(events, ToolUseEvent(block))
           /\ toolCalls' = Append(toolCalls, [id |-> block.id, round |-> modelCalls,
                                               outcome |-> "called"])
    /\ pc' = "tool_wait"
    /\ UNCHANGED <<request, userMessage, conversationId, response, customerToken, codeVerifiers,
                   authResponse, tools, store, pending, conversationHistory, productsToDisplay,
                   finalMessage, safetyCounter, closed, thrown, modelCalls, stopLog,
                   faults, historyResponse,
                   call, clientGone>>

\* the turn the tool service folds into conversationHistory
ToolResultTurn(toolUseId, outcome) ==
    [role |-> "user",
     content |-> Arr(<<ToolResultBlock(toolUseId,
                                       IF Truthy(outcome.error) THEN outcome.error
                                       ELSE outcome.content,
                                       Truthy(outcome.error))>>)]

\* the display items replace the accumulator
MergeProducts_Reset(products, outcome) == outcome.displayItems

\* handleToolSuccess: the display items are merged into productsToDisplay
MergeProducts(products, outcome) == products \o outcome.displayItems

SetLast(seq, field, value) == [seq EXCEPT ![Len(seq)] = [@ EXCEPT ![field] = value]]

\* callTool resolves: if (toolUseResponse.error) handleToolError else
\* handleToolSuccess; then stream.sendMessage({type: 'new_message'})
ToolReturn ==
    /\ pc = "tool_wait"
    /\ \E outcome \in ToolOutcomes :
         LET block == finalMessage.content.items[toolIdx]
             turn == ToolResultTurn(block.id, outcome)
         IN  /\ faults' = faults + Overtaking(pending)
                           + (IF Truthy(outcome.error) THEN 1 ELSE 0)
             /\ faults' <= MaxFaults
             /\ conversationHistory' = Append(conversationHistory, turn)
             /\ pending' = pending \cup {Write(Len(conversationHistory) + 1, conversationId,
                                               "user", JSONstringify(turn.content))}
             /\ productsToDisplay' = IF Truthy(outcome.error) THEN productsToDisplay
                                     ELSE MergeProducts(productsToDisplay, outcome)
             /\ toolCalls' = SetLast(toolCalls, "outcome",
                                     IF Truthy(outcome.error) THEN "failure" ELSE "success")
    /\ events' = Append(events, Event("new_message"))
    /\ toolIdx' = toolIdx + 1
    /\ pc' = "tools"
    /\ UNCHANGED <<request, userMessage, conversationId, response, customerToken, codeVerifiers,
                   authResponse, tools, store, finalMessage, safetyCounter, closed, thrown,
                   modelCalls, stopLog, historyResponse,
                   call, clientGone>>

\* callTool rejects: the error leaves onToolUse, streamConversation and the loop
ToolRaise ==
    /\ pc = "tool_wait"
    /\ thrown' = GatewayError
    /\ toolCalls' = SetLast(toolCalls, "outcome", "raised")
    /\ pc' = "failed"
    /\ UNCHANGED <<request, userMessage, conversationId, response, customerToken, codeVerifiers,
                   authResponse, tools, store, pending, conversationHistory, productsToDisplay,
                   finalMessage, safetyCounter, toolIdx, events, closed, modelCalls, stopLog,
                   faults, historyResponse,
                   call, clientGone>>

\* the early break left out
BreakEarly_Never(message) == FALSE

\* if (!finalMessage || !finalMessage.stop_reason) break
BreakEarly(message) == ~Truthy(message.stop_reason)

\* streamConversation returns finalMessage; safetyCounter += 1; the early break
ReturnFinalMessage ==
    /\ pc = "tools"
    /\ ToolUseIndices(finalMessage, toolIdx) = {}
    /\ safetyCounter' = safetyCounter + 1
    /\ pc' = IF BreakEarly(finalMessage) THEN "exit" ELSE "loop"
    /\ UNCHANGED <<request, userMessage, conversationId, response, customerToken, codeVerifiers,
                   authResponse, tools, store, pending, conversationHistory, productsToDisplay,
                   finalMessage, toolIdx, events, closed, thrown, modelCalls, toolCalls, stopLog,
                   faults, historyResponse,
                   call, clientGone>>

\* the events after the loop, a product listing sent whatever the accumulator holds
ExitEvents_Always(products) == <<Event("end_turn"), ProductEvent(products)>>

\* the events after the loop, the product listing first
ExitEvents_ProductsFirst(products) ==
    (IF Len(products) > 0 THEN <<ProductEvent(products)>> ELSE <<>>) \o <<Event("end_turn")>>

\* the events sent after the loop: end_turn, then product_results if any
ExitEvents(products) ==
    <<Event("end_turn")>> \o (IF Len(products) > 0 THEN <<ProductEvent(products)>> ELSE <<>>)

EmitEndTurn ==
    /\ pc = "exit"
    /\ events' = events \o ExitEvents(productsToDisplay)
    /\ pc' = "returned"
    /\ UNCHANGED <<request, userMessage, conversationId, response, customerToken, codeVerifiers,
                   authResponse, tools, store, pending, conversationHistory, productsToDisplay,
                   finalMessage, safetyCounter, toolIdx, closed, thrown, modelCalls, toolCalls,
                   stopLog, faults, historyResponse,
                   call, clientGone>>

----------------------------------------------------------------------------
(* The end of the request: createSseStream and the JSON fallback *)

\* handleChatSession returned: the SSE stream is closed, or the buffered result
\* becomes the JSON response
Finish ==
    /\ pc = "returned"
    /\ IF request.wantsSse
       THEN /\ closed' = TRUE
            /\ response' = response
       ELSE /\ closed' = closed
            /\ response' = [status |-> 200,
                            body |-> [conversation_id |-> conversationId,
                                      message |-> getResult(events).text,
                                      products |-> getResult(events).products,
                                      events |-> getResult(events).events]]
    /\ pc' = "done"
    /\ UNCHANGED <<request, userMessage, conversationId, customerToken, codeVerifiers,
                   authResponse, tools, store, pending, conversationHistory, productsToDisplay,
                   finalMessage, safetyCounter, toolIdx, events, thrown, modelCalls, toolCalls,
                   stopLog, faults, historyResponse,
                   call, clientGone>>

\* a catch that swallows the error without telling the client
SseCatch_Silent(evs, error) == evs

\* createSseStream's catch: streamManager.handleStreamingError(error)
SseCatch(evs, error) == Append(evs, StreamingErrorEvent(error))

\* the response of handleChatRequest's catch
ErrorResponse(error) == [status |-> 500, body |-> [error |-> error.message]]

\* handleChatSession threw: createSseStream's catch and finally, or
\* handleChatRequest's catch
Fail ==
    /\ pc = "failed"
    /\ IF request.wantsSse
       THEN /\ events' = SseCatch(events, thrown)
            /\ closed' = TRUE
            /\ response' = response
       ELSE /\ events' = events
            /\ closed' = closed
            /\ response' = ErrorResponse(thrown)
    /\ pc' = "done"
    /\ UNCHANGED <<request, userMessage, conversationId, customerToken, codeVerifiers,
                   authResponse, tools, store, pending, conversationHistory, productsToDisplay,
                   finalMessage, safetyCounter, toolIdx, thrown, modelCalls, toolCalls, stopLog,
                   faults, historyResponse,
                   call, clientGone>>

----------------------------------------------------------------------------
(* The store's side: completion of the writes not awaited, history requests *)

\* the session is suspended in an await, or over
Suspended == pc \in {"streaming", "tool_wait", "done"}

\* the session is suspended in one of its awaits: the event loop is free
Awaiting ==
    pc \in {"gate", "auth_url", "auth_save_user", "auth_save_prompt", "connect", "save_user",
            "fetch_history", "streaming", "tool_wait"}

\* the client of an SSE response goes away: the response stream is cancelled while
\* start(controller) is suspended; no cancel callback is registered
ClientDisconnect_Abort ==
    /\ Awaiting
    /\ request.wantsSse
    /\ ~clientGone.gone
    /\ faults < MaxFaults
    /\ faults' = faults + 1
    /\ clientGone' = [gone |-> TRUE, sent |-> Len(events)]
    /\ thrown' = Error(0, <<"Invalid", "state">>)
    /\ pc' = "failed"
    /\ UNCHANGED <<request, userMessage, conversationId, response, customerToken,
                   codeVerifiers, authResponse, tools, store, pending, conversationHistory,
                   productsToDisplay, finalMessage, safetyCounter, toolIdx, events, closed,
                   modelCalls, toolCalls, stopLog, historyResponse, call>>

ClientDisconnect ==
    /\ Awaiting
    /\ request.wantsSse
    /\ ~clientGone.gone
    /\ faults < MaxFaults
    /\ faults' = faults + 1
    /\ clientGone' = [gone |-> TRUE, sent |-> Len(events)]
    /\ UNCHANGED <<pc, request, userMessage, conversationId, response, customerToken,
                   codeVerifiers, authResponse, tools, store, pending, conversationHistory,
                   productsToDisplay, finalMessage, safetyCounter, toolIdx, events, closed,
                   thrown, modelCalls, toolCalls, stopLog, historyResponse, call>>

\* what the controller enqueued: sendMessage's enqueue throws once the stream is
\* cancelled, and the catch around it logs and returns
Enqueued == IF clientGone.gone THEN SubSeq(events, 1, clientGone.sent) ELSE events

\* a write issued by the session completes: the turn is appended
CompleteWrite ==
    /\ Suspended
    /\ \E w \in pending :
         /\ store' = saveMessage(store, w.id, w.role, w.content)
         /\ pending' = pending \ {w}
    /\ UNCHANGED <<pc, request, userMessage, conversationId, response, customerToken,
                   codeVerifiers, authResponse, tools, conversationHistory, productsToDisplay,
                   finalMessage, safetyCounter, toolIdx, events, closed, thrown, modelCalls,
                   toolCalls, stopLog, faults, historyResponse,
                   call, clientGone>>

\* a write issued by the session fails and its rejection leaves the session
RejectWrite_Abort ==
    /\ pc \in {"streaming", "tool_wait"}
    /\ faults < MaxFaults
    /\ \E w \in pending : pending' = pending \ {w}
    /\ faults' = faults + 1
    /\ thrown' = StoreError
    /\ pc' = "failed"
    /\ UNCHANGED <<request, userMessage, conversationId, response, customerToken,
                   codeVerifiers, authResponse, tools, store, conversationHistory,
                   productsToDisplay, finalMessage, safetyCounter, toolIdx, events, closed,
                   modelCalls, toolCalls, stopLog, historyResponse, call, clientGone>>

\* a write issued by the session fails: the rejection is caught and logged
RejectWrite ==
    /\ Suspended
    /\ faults < MaxFaults
    /\ \E w \in pending : pending' = pending \ {w}
    /\ faults' = faults + 1
    /\ UNCHANGED <<pc, request, userMessage, conversationId, response, customerToken,
                   codeVerifiers, authResponse, tools, store, conversationHistory,
                   productsToDisplay, finalMessage, safetyCounter, toolIdx, events, closed,
                   thrown, modelCalls, toolCalls, stopLog, historyResponse,
                   call, clientGone>>

\* handleHistoryRequest, once the chat request is over: the stored turns are
\* returned
HandleHistoryRequest ==
    /\ pc = "done"
    /\ historyResponse = None
    /\ \E id \in ConversationIds :
         historyResponse' = [messages |-> getConversationHistory(store, id)]
    /\ UNCHANGED <<pc, request, userMessage, conversationId, response, customerToken,
                   codeVerifiers, authResponse, tools, store, pending, conversationHistory,
                   productsToDisplay, finalMessage, safetyCounter, toolIdx, events, closed,
                   thrown, modelCalls, toolCalls, stopLog, faults,
                   call, clientGone>>

----------------------------------------------------------------------------

Next ==
    \/ \E req \in Requests : HandleChatRequest(req)
    \/ AccountGate
    \/ GenerateAuthUrl
    \/ AuthSaveUser
    \/ AuthSavePrompt
    \/ ConnectTools
    \/ SaveUserMessage
    \/ FetchHistory
    \/ LoopTest
    \/ ModelRespond
    \/ ModelThrow
    \/ ToolDispatch
    \/ ToolReturn
    \/ ToolRaise
    \/ ReturnFinalMessage
    \/ EmitEndTurn
    \/ Finish
    \/ Fail
    \/ CompleteWrite
    \/ RejectWrite
    \/ HandleHistoryRequest
    \/ ClientDisconnect

Spec == Init /\ [][Next]_vars

\* a request on a conversation whose earlier session left OrphanResultLog
LaterInit == IdleOn({OrphanResultLog}) /\ call = None

LaterSpec == LaterInit /\ [][Next]_vars

\* The steps of the request itself: every one of them is the continuation of an
\* await that resolved, or of the request's arrival
Session ==
    \/ \E req \in Requests : HandleChatRequest(req)
    \/ AccountGate \/ GenerateAuthUrl \/ AuthSaveUser \/ AuthSavePrompt
    \/ ConnectTools \/ SaveUserMessage \/ FetchHistory \/ LoopTest
    \/ ModelRespond \/ ModelThrow \/ ToolDispatch \/ ToolReturn \/ ToolRaise
    \/ ReturnFinalMessage \/ EmitEndTurn \/ Finish \/ Fail

\* Every await of the session resolves or rejects, and every write issued
\* completes or fails
FairSpec == Spec /\ WF_vars(Session) /\ WF_vars(CompleteWrite \/ RejectWrite)

----------------------------------------------------------------------------
(* normalizeContent called on its own: once, then on its own result *)

\* the engine's variables: a function called on its own leaves them alone
engine == <<pc, request, userMessage, conversationId, customerToken,
            codeVerifiers, authResponse, tools, store, pending, conversationHistory,
            productsToDisplay, finalMessage, safetyCounter, toolIdx, events, closed,
            response, thrown, modelCalls, toolCalls, stopLog, faults, historyResponse,
            clientGone>>

\* the content blocks a content array is made of here
SampleBlocks ==
    { TextBlock(Str(<<"hi">>)), TextBlock(Str(<<>>)), ToolUseBlock(1, "search_shop_catalog"),
      ToolResultBlock(1, Str(<<"found">>), FALSE),
      ToolResultBlock(1, Str(<<"not", "found">>), TRUE) }

\* content arrays of at most MaxBlocks blocks
MaxBlocks == 2

SampleArrays ==
    { Arr(items) : items \in UNION { [1..n -> SampleBlocks] : n \in 0..MaxBlocks } }

\* what normalizeContent may be given: JSON.parse results and message texts
Contents ==
    { None, Null, Num(0), Num(1), Num(5), Str(<<>>), Str(<<" ">>), Str(<<"hi">>),
      Str(<<"0">>), Str(<<"hello", "world">>), [t |-> "object", type |-> ""],
      Arr(<<Num(1)>>) }
    \cup SampleBlocks \cup SampleArrays

NormalizeInit ==
    /\ Idle
    /\ call \in { [fn |-> "normalizeContent", arg |-> c, once |-> None, twice |-> None] :
                   c \in Contents }

\* normalizeContent(content)
NormalizeOnce ==
    /\ call.once = None
    /\ call' = [call EXCEPT !.once = normalizeContent(call.arg)]
    /\ UNCHANGED engine

\* normalizeContent(normalizeContent(content))
NormalizeTwice ==
    /\ call.once /= None
    /\ call.twice = None
    /\ call' = [call EXCEPT !.twice = normalizeContent(call.once)]
    /\ UNCHANGED engine

NormalizeNext == NormalizeOnce \/ NormalizeTwice

NormalizeSpec == NormalizeInit /\ [][NormalizeNext]_vars

----------------------------------------------------------------------------
(* createBufferedStream called on its own: sendMessage any number of times, getResult *)

\* sendMessage calls on one buffered stream
MaxSends == 3

\* the payloads the engine hands to stream.sendMessage
Payloads ==
    { IdEvent("c1"), ChunkEvent(Str(<<"Hel">>)), ChunkEvent(Str(<<"lo">>)),
      Event("message_complete"), Event("new_message"), Event("end_turn"),
      ProductEvent(<<"p1">>), ProductEvent(<<"p2", "p3">>) }

\* const events = []; const textChunks = []; const resultState = { products: [] }
createBufferedStream == [events |-> <<>>, textChunks |-> <<>>, resultState |-> [products |-> <<>>]]

\* a sendMessage that puts the newest chunk first
BufferedSendMessage_Prepend(buf, payload) ==
    [events |-> Append(buf.events, payload),
     textChunks |-> IF payload.type = "chunk" THEN <<payload.chunk>> \o buf.textChunks
                    ELSE buf.textChunks,
     resultState |-> buf.resultState]

\* sendMessage(payload) of the buffered stream; products is an array in every
\* product_results payload here
BufferedSendMessage(buf, payload) ==
    [events |-> Append(buf.events, payload),
     textChunks |-> IF payload.type = "chunk" /\ payload.chunk.t = "string"
                    THEN Append(buf.textChunks, payload.chunk)
                    ELSE buf.textChunks,
     resultState |-> IF payload.type = "product_results"
                     THEN [products |-> payload.products]
                     ELSE buf.resultState]

RECURSIVE Join(_)
\* textChunks.join("")
Join(chunks) == IF chunks = <<>> THEN <<>> ELSE Head(chunks).s \o Join(Tail(chunks))

\* getResult() of the buffered stream
BufferedGetResult(buf) ==
    [text |-> Join(buf.textChunks), events |-> buf.events, products |-> buf.resultState.products]

BufferedInit ==
    /\ Idle
    /\ call = [fn |-> "createBufferedStream", stream |-> createBufferedStream, sent |-> <<>>,
               result |-> None]

\* stream.sendMessage(payload)
BufferedSend(payload) ==
    /\ Len(call.sent) < MaxSends
    /\ call' = [call EXCEPT !.stream = BufferedSendMessage(call.stream, payload),
                            !.sent = Append(call.sent, payload),
                            !.result = None]
    /\ UNCHANGED engine

\* bufferedStream.getResult()
BufferedResult ==
    /\ call.result = None
    /\ call' = [call EXCEPT !.result = BufferedGetResult(call.stream)]
    /\ UNCHANGED engine

BufferedNext == (\E payload \in Payloads : BufferedSend(payload)) \/ BufferedResult

BufferedSpec == BufferedInit /\ [][BufferedNext]_vars

----------------------------------------------------------------------------
(* handleStreamingError called on its own *)

\* words in an error message
MaxWords == 2

\* the words error messages are made of
ErrorWords == {"auth", "AUTH", "Key", "Overloaded", "overloaded", "rate"}

\* error.status; 0 stands for an error without status
ErrorStatuses == {0, 401, 429, 500, 529}

\* the errors handleStreamingError may be given
Errors ==
    { Error(status, message) :
        status \in ErrorStatuses,
        message \in UNION { [1..n -> ErrorWords] : n \in 0..MaxWords } }

ClassifyInit ==
    /\ Idle
    /\ call \in { [fn |-> "handleStreamingError", error |-> e, sent |-> None] : e \in Errors }

\* streamManager.handleStreamingError(error)
HandleStreamingError ==
    /\ call.sent = None
    /\ call' = [call EXCEPT !.sent = StreamingErrorEvent(call.error)]
    /\ UNCHANGED engine

ClassifyNext == HandleStreamingError

ClassifySpec == ClassifyInit /\ [][ClassifyNext]_vars

----------------------------------------------------------------------------
(* Chat requests handled concurrently by one server: each session's steps     *)
(* between its arrival and its first model invocation that touch the store    *)

\* requests in flight at once
MaxSessions == 2

Sessions == 1..MaxSessions

\* Date.now().toString() at an arrival: two requests may arrive within one
\* millisecond or a millisecond apart
ArrivalClock == { "1762146000000", "1762146000001" }

\* the bodies of the requests: none is blank, the conversation id may be absent
ConcurrentBodies ==
    [message : {Str(<<"hello">>), Str(<<"hi">>)}, conversation_id : {None, Str(<<"c1">>)},
     now : ArrivalClock, shopId : {"shop1"}, wantsSse : {TRUE}]

ConcurrentInit ==
    /\ Idle
    /\ call \in { [fn |-> "handleChatRequest", body |-> bodies,
                   at |-> [s \in Sessions |-> "arrive"],
                   id |-> [s \in Sessions |-> ""],
                   db |-> [id \in {"c1"} \cup ArrivalClock |-> <<>>],
                   history |-> [s \in Sessions |-> <<>>]] :
                  bodies \in [Sessions -> ConcurrentBodies] }

\* handleChatRequest up to the call of handleChatSession: the conversation id
SessionArrives(s) ==
    /\ call.at[s] = "arrive"
    /\ call' = [call EXCEPT !.id[s] = ConversationIdOf(call.body[s]), !.at[s] = "save"]
    /\ UNCHANGED engine

\* await saveMessage(conversationId, 'user', userMessage)
SessionSavesUser(s) ==
    /\ call.at[s] = "save"
    /\ call' = [call EXCEPT !.db = SaveUserTurn(call.db, call.id[s],
                                                TrimmedMessage(call.body[s])),
                            !.at[s] = "fetch"]
    /\ UNCHANGED engine

\* getConversationHistory and the map to content blocks; the loop is entered and
\* the model invoked with this history
SessionFetches(s) ==
    /\ call.at[s] = "fetch"
    /\ call' = [call EXCEPT !.history[s] = SeedHistory(getConversationHistory(call.db,
                                                                              call.id[s])),
                            !.at[s] = "invoke"]
    /\ UNCHANGED engine

ConcurrentNext ==
    \E s \in Sessions : SessionArrives(s) \/ SessionSavesUser(s) \/ SessionFetches(s)

ConcurrentSpec == ConcurrentInit /\ [][ConcurrentNext]_vars

----------------------------------------------------------------------------
(* Properties *)

EventTypes == [i \in 1..Len(events) |-> events[i].type]

Emitted(type) == \E i \in 1..Len(events) : events[i].type = type

EndTurn == Str(<<"end_turn">>)

\* the session is in the turn loop
InLoop == pc \in {"loop", "streaming", "tools", "tool_wait"}

\* C1: in one chat session the model is invoked at most 6 times, whatever the
\* sequence of model responses, also when every response requests tools and none
\* returns the stop reason "end_turn".
C1_AtMostSixInvocations == modelCalls <= 6

\* a session that ran into the turn limit: six rounds, each of them requesting a tool
C1_Witness ==
    /\ pc = "done"
    /\ modelCalls = 6
    /\ Len(stopLog) = 6
    /\ \A i \in 1..6 : stopLog[i] = Str(<<"tool_use">>)
    /\ Len(toolCalls) >= 6

\* C2: provided every model and tool invocation returns, the turn loop terminates:
\* no round follows a round that returned "end_turn" or no stop reason, no round
\* follows the 6th, and a session in the loop goes on to emit end_turn (unless an
\* invocation threw).
C2_LoopTerminates ==
    /\ [](/\ Len(stopLog) <= maxTurns
          /\ \A i \in 1..(Len(stopLog) - 1) : stopLog[i] \notin {EndTurn, None}
          /\ (pc = "streaming" /\ stopLog /= <<>>) =>
                stopLog[Len(stopLog)] \notin {EndTurn, None})
    /\ (InLoop ~> (Emitted("end_turn") \/ thrown /= None))

\* a session left the loop on a round without a stop reason, after a tool round
C2_Witness ==
    /\ pc = "done"
    /\ Emitted("end_turn")
    /\ Len(stopLog) >= 2
    /\ stopLog[Len(stopLog)] = None

\* the authorization prompt was emitted
AuthPromptEmitted ==
    \E i \in 1..Len(events) :
        /\ events[i].type = "chunk"
        /\ includes(events[i].chunk.s, <<"authorize">>)

\* C3: for every request whose message is non-empty, exactly one of the two paths
\* runs: the authorization short-circuit (authorization prompt emitted, no model
\* invocation) or the normal model turn (at least one model invocation).
C3_ExactlyOnePath ==
    (pc = "done" /\ Truthy(userMessage)) =>
        ((AuthPromptEmitted /\ modelCalls = 0) \/ (~AuthPromptEmitted /\ modelCalls >= 1))

\* the events of the authorization short-circuit for the request
ExpectedAuthEvents ==
    <<IdEvent(conversationId), ChunkEvent(AuthMessage(authResponse.url)),
      Event("message_complete"), Event("done")>>

\* C4: when the message contains an account-intent keyword and the conversation has
\* no customer session with an access token, the session emits exactly id, chunk,
\* message_complete, done, in this order, the chunk carrying an authorization URL
\* with code_challenge_method=S256, and no model or tool invocation occurs.
C4_AuthorizationScenario ==
    (pc = "done" /\ Truthy(userMessage) /\ isAccountDataRequest(userMessage) /\ ~customerToken) =>
        /\ authResponse /= None
        /\ authResponse.url.code_challenge_method = "S256"
        /\ events = ExpectedAuthEvents
        /\ modelCalls = 0
        /\ toolCalls = <<>>

\* the history holds a tool result for the call id
Folded(id) ==
    \E i \in 1..Len(conversationHistory) :
        \E k \in 1..Len(conversationHistory[i].content.items) :
            LET b == conversationHistory[i].content.items[k]
            IN  b.t = "object" /\ b.type = "tool_result" /\ b.tool_use_id = id

\* C5: a tool invocation with a Failure outcome never aborts the turn loop: when the
\* Tool Gateway returns or raises a failure, a tool result for that call id is
\* folded into WorkingHistory, the loop proceeds to the next model round, and
\* end_turn is still emitted at the end of the session.
C5_ToolFailureNeverAborts ==
    pc = "done" =>
        \A i \in 1..Len(toolCalls) :
            toolCalls[i].outcome \in {"failure", "raised"} =>
                /\ Folded(toolCalls[i].id)
                /\ modelCalls > toolCalls[i].round
                /\ Emitted("end_turn")

ErrorClass == {"error", "rate_limit_exceeded"}

\* C6: in streaming mode, when a model invocation throws, no further model or tool
\* invocation is made in the session, no end_turn and no product_results is
\* emitted, exactly one error-class event is emitted, as the last event, and the
\* stream is closed.
C6_ModelFailureStreaming ==
    (request /= None /\ request.wantsSse /\ thrown \in ModelErrors) =>
        /\ pc \in {"failed", "done"}
        /\ modelCalls = Len(stopLog) + 1
        /\ \A i \in 1..Len(toolCalls) : toolCalls[i].round <= Len(stopLog)
        /\ ~Emitted("end_turn")
        /\ ~Emitted("product_results")
        /\ pc = "done" =>
              /\ closed
              /\ Cardinality({i \in 1..Len(events) : events[i].type \in ErrorClass}) = 1
              /\ events[Len(events)].type \in ErrorClass

\* a streaming session whose second model invocation threw, after a tool round
C6_Witness ==
    /\ pc = "done"
    /\ request.wantsSse
    /\ thrown \in ModelErrors
    /\ modelCalls = 2
    /\ Len(toolCalls) = 1

\* C7: in buffered mode as in streaming mode, a model invocation failure is
\* surfaced through the error classification: the client's response carries one
\* classified failure event, the one streaming mode gives for the same failure.
C7_BufferedFailureClassified ==
    (pc = "done" /\ ~request.wantsSse /\ thrown \in ModelErrors) =>
        /\ "events" \in DOMAIN response.body
        /\ Cardinality({i \in 1..Len(response.body.events) :
                          response.body.events[i] = StreamingErrorEvent(thrown)}) = 1

\* the content blocks of a stored turn, as a history fetch reconstructs them
Blocks(stored) == FormatDbMessage(stored).content.items

HasBlock(stored, type, field, id) ==
    \E k \in 1..Len(Blocks(stored)) :
        LET b == Blocks(stored)[k]
        IN  b.t = "object" /\ b.type = type /\ b[field] = id

\* C8: the order of a conversation's turns in the store is the order in which the
\* session appended them to WorkingHistory: for every interleaving of the
\* non-awaited assistant-turn write with the later tool-result writes, an assistant
\* turn is stored before the tool-result turns that answer it.
C8_AssistantStoredBeforeToolResult ==
    \A id \in ConversationIds :
        \A j \in 1..Len(store[id]) :
            \A k \in 1..Len(Blocks(store[id][j])) :
                LET b == Blocks(store[id][j])[k]
                IN  (b.t = "object" /\ b.type = "tool_result") =>
                        \E i \in 1..(j - 1) :
                            /\ store[id][i].role = "assistant"
                            /\ HasBlock(store[id][i], "tool_use", "id", b.tool_use_id)

IsPrefix(a, b) == Len(a) <= Len(b) /\ SubSeq(b, 1, Len(a)) = a

\* C9: the store's log of a conversation is append-only under every operation of
\* the engine: after any step the log before the step is a prefix of the log after
\* it.
C9_LogAppendOnly ==
    [][\A id \in ConversationIds : IsPrefix(store[id], store'[id])]_vars

\* a failed session on a conversation with earlier turns, its log grown, and a
\* history request served afterwards
C9_Witness ==
    /\ pc = "done"
    /\ thrown /= None
    /\ historyResponse /= None
    /\ Len(store["c1"]) >= 4
    /\ Len(historyResponse.messages) >= 4

\* the content-block sequence a stored turn stands for
StoredBlocks(stored) ==
    IF stored.content.kind = "json" THEN stored.content.v
    ELSE Arr(<<TextBlock(stored.content)>>)

\* C10: round trip of a turn through the store: whether it was stored as a
\* JSON-serialized array of content blocks or as a plain string, re-reading it when
\* WorkingHistory is seeded reconstructs an equivalent content-block sequence; a
\* plain string s is reconstructed as the single block Text{text: s}.
C10_RoundTrip ==
    (pc = "loop" /\ modelCalls = 0) =>
        /\ Len(conversationHistory) = Len(store[conversationId])
        /\ \A i \in 1..Len(conversationHistory) :
              conversationHistory[i].content = StoredBlocks(store[conversationId][i])

\* C11: content normalization is idempotent: normalizing a normalized content gives
\* it back; a content-block sequence is returned unchanged, and a bare string s
\* yields the one-element sequence of the text block of s.
C11_NormalizeIdempotent ==
    /\ call.twice /= None => call.twice = call.once
    /\ call.once /= None =>
          /\ call.arg.t = "array" => call.once = call.arg
          /\ call.arg.t = "string" => call.once = Arr(<<TextBlock(call.arg)>>)

\* the bare string hi normalized twice
C11_Witness ==
    /\ call.arg = Str(<<"hi">>)
    /\ call.twice = Arr(<<TextBlock(Str(<<"hi">>))>>)

RECURSIVE ChunkText(_, _)
\* the text of the chunk events among the first n events, in order
ChunkText(evs, n) ==
    IF n = 0 THEN <<>>
    ELSE ChunkText(evs, n - 1) \o (IF evs[n].type = "chunk" THEN evs[n].chunk.s ELSE <<>>)

\* the payload of the last product_results event, or empty
LastProducts(evs) ==
    LET sentAt == {i \in 1..Len(evs) : evs[i].type = "product_results"}
    IN  IF sentAt = {} THEN <<>>
        ELSE evs[CHOOSE i \in sentAt : \A j \in sentAt : j <= i].products

\* C12: in buffered mode, after any sequence of send calls, getResult().text is the
\* concatenation in send order of the text of all chunk events, getResult().events
\* is the sequence of the events sent, and getResult().products is the payload of
\* the last product_results event sent, or empty if none was sent.
C12_BufferedResult ==
    call.result /= None =>
        /\ call.result.text = ChunkText(call.sent, Len(call.sent))
        /\ call.result.events = call.sent
        /\ call.result.products = LastProducts(call.sent)

\* the chunks Hel and lo, then a product listing
C12_Witness ==
    /\ call.sent = <<ChunkEvent(Str(<<"Hel">>)), ChunkEvent(Str(<<"lo">>)), ProductEvent(<<"p1">>)>>
    /\ call.result /= None
    /\ call.result.text = <<"Hel", "lo">>
    /\ call.result.products = <<"p1">>

\* the request's message is missing, not a string, empty or blank
BlankMessage(req) ==
    \/ req.message.t /= "string"
    \/ \A i \in 1..Len(req.message.s) : req.message.s[i] = " "

\* C13: a request whose message is missing, not a string, empty or blank is answered
\* with status 400 and never reaches the loop: no store write, no authorization
\* URL, no model invocation, no tool invocation and no event.
C13_BlankMessageRejected ==
    (request /= None /\ BlankMessage(request)) =>
        /\ pc = "done"
        /\ response = [status |-> 400, body |-> [error |-> <<"Message is required">>]]
        /\ store["c1"] \in PriorLogs
        /\ \A id \in Clock : store[id] = <<>>
        /\ pending = {}
        /\ authResponse = None
        /\ codeVerifiers = {}
        /\ modelCalls = 0
        /\ toolCalls = <<>>
        /\ events = <<>>
        /\ ~closed

\* a blank message was answered, and a history request served afterwards
C13_Witness ==
    /\ request /= None
    /\ request.message = Str(<<" ">>)
    /\ response /= None
    /\ response.status = 400
    /\ historyResponse /= None

\* the request was answered on the normal path, no tool on offer
EmptyCatalogSession ==
    /\ pc = "done"
    /\ Truthy(userMessage)
    /\ ~isAccountDataRequest(userMessage)
    /\ tools = <<>>

OneShotAnswer ==
    /\ pc = "done"
    /\ thrown = None
    /\ ~AuthPromptEmitted
    /\ modelCalls = 1
    /\ toolCalls = <<>>
    /\ Cardinality({i \in 1..Len(events) : events[i].type = "chunk"}) = 1

\* the event types of the authorization short-circuit
AuthEventTypes ==
    [i \in 1..4 |-> AuthEvents("c1", Str(<<>>))[i].type]

\* C15: a client cannot distinguish the authorization short-circuit from a normal
\* one-shot answer except by content: the sequence of event types of a normal
\* session with one model round, one text delta and no tool call is the sequence
\* of event types the authorization path emits.
C15_SameEventTypes == OneShotAnswer => EventTypes = AuthEventTypes

\* the authorization short-circuit was taken
AuthTaken ==
    /\ pc \notin {"idle", "gate"}
    /\ Truthy(userMessage)
    /\ NeedsAuthorization(userMessage, customerToken)

\* C16: whenever the authorization short-circuit is taken, the user's message is
\* appended to the store and followed immediately by an assistant turn holding the
\* authorization prompt with the URL, both stored before any event of the session
\* is emitted, also when issuing the URL or storing the verifier fails.
C16_AuthTurnsStored ==
    (AuthTaken /\ (pc = "done" \/ events /= <<>>)) =>
        LET log == store[conversationId]
            n == Len(log)
        IN  /\ n >= 2
            /\ authResponse /= None
            /\ log[n - 1] = StoredTurn("user", userMessage)
            /\ log[n] = StoredTurn("assistant", AuthMessage(authResponse.url))

\* how many events of the type were emitted
Count(type) == Cardinality({i \in 1..Len(events) : events[i].type = type})

\* the turn loop was left normally and the exit events were sent
NormalExit == pc \in {"returned", "done"} /\ thrown = None /\ modelCalls >= 1

\* C17: on every normal exit of the turn loop the session emits end_turn exactly
\* once; a product_results event is emitted if and only if the product-display
\* accumulator is non-empty at exit, at most once, after end_turn, as the last
\* event, carrying the accumulator's contents.
C17_ExitEvents ==
    /\ (InLoop \/ pc = "exit") => (Count("end_turn") = 0 /\ Count("product_results") = 0)
    /\ NormalExit =>
          /\ Count("end_turn") = 1
          /\ IF productsToDisplay /= <<>>
             THEN /\ Count("product_results") = 1
                  /\ events[Len(events)] = ProductEvent(productsToDisplay)
                  /\ events[Len(events) - 1].type = "end_turn"
             ELSE /\ Count("product_results") = 0
                  /\ events[Len(events)].type = "end_turn"

\* a session of two successful tool rounds: the listing of both follows end_turn
C17_Witness ==
    /\ pc = "done"
    /\ thrown = None
    /\ Len(productsToDisplay) = 2
    /\ events[Len(events)] = ProductEvent(productsToDisplay)
    /\ events[Len(events) - 1].type = "end_turn"

\* the error has the status or carries the marker of a rate limit
RateLimited(error) ==
    \/ error.status \in {429, 529}
    \/ \E i \in 1..Len(error.message) : error.message[i] = "Overloaded"

\* the error has the status of an authentication failure, or its message holds
\* auth or key in whatever case
AuthFailed(error) ==
    \/ error.status = 401
    \/ \E i \in 1..Len(error.message) : ToLowerToken(error.message[i]) \in {"auth", "key"}

AuthFailureEvent(ev) ==
    ev.type = "error" /\ ev.error = "Authentication failed with Claude API"

GenericFailureEvent(ev, error) ==
    /\ ev.type = "error"
    /\ ev.error = "Failed to get response from Claude"
    /\ ev.details = IF error.message = <<>> THEN <<"Unknown error">> ELSE error.message

\* C18 as stated: every failure with status 429 or 529, or whose message holds the
\* overload marker, produces a rate_limit_exceeded event whatever the rest of its
\* message; a failure with status 401 or whose message holds auth or key produces
\* the authentication-failure event; any other failure the generic failure event
\* carrying the raw message.
C18_Classification ==
    call.sent /= None =>
        /\ RateLimited(call.error) => call.sent.type = "rate_limit_exceeded"
        /\ AuthFailed(call.error) => AuthFailureEvent(call.sent)
        /\ (~RateLimited(call.error) /\ ~AuthFailed(call.error)) =>
              GenericFailureEvent(call.sent, call.error)

\* C18, amended: a failure with status 401, or whose message holds auth or key in
\* whatever case, produces the authentication-failure event whatever its status
\* and the rest of its message; any other failure with status 429 or 529, or whose
\* message holds Overloaded, produces a rate_limit_exceeded event; any other
\* failure produces the generic failure event carrying the raw message, or
\* Unknown error in its place when the message is empty.
C18_ClassificationInOrder ==
    call.sent /= None =>
        IF AuthFailed(call.error) THEN AuthFailureEvent(call.sent)
        ELSE IF RateLimited(call.error) THEN call.sent.type = "rate_limit_exceeded"
        ELSE GenericFailureEvent(call.sent, call.error)

\* a rate-limit status with a message that speaks of a key: classified as an
\* authentication failure
C18_Witness ==
    /\ call.error = Error(429, <<"rate", "Key">>)
    /\ call.sent /= None
    /\ AuthFailureEvent(call.sent)

RECURSIVE RequestedIds(_)
\* the ids of the tool-use requests of the history, in the order of the turns and
\* of their content blocks
RequestedIds(history) ==
    IF history = <<>> THEN <<>>
    ELSE LET requests == SelectSeq(Head(history).content.items, IsToolUse)
         IN  [k \in 1..Len(requests) |-> requests[k].id] \o RequestedIds(Tail(history))

\* the tool_use and new_message events, in the order sent
DispatchEvents == SelectSeq(events, LAMBDA e : e.type \in {"tool_use", "new_message"})

\* C19: each tool-use request of a completed assistant message is dispatched to the
\* Tool Gateway exactly once, in the order of the content blocks, one at a time (a
\* call returns and its result is folded into WorkingHistory before the next call
\* starts); for each request the order is tool_use event, gateway call, fold of
\* the result, new_message event, all before the next model invocation.
C19_ToolDispatchProtocol ==
    LET called == [i \in 1..Len(toolCalls) |-> toolCalls[i].id]
        requested == RequestedIds(conversationHistory)
        waiting == IF pc = "tool_wait" THEN 1 ELSE 0
    IN  /\ IsPrefix(called, requested)
        /\ pc \in {"loop", "streaming", "exit", "returned", "failed", "done"} => called = requested
        /\ \A i \in 1..(Len(toolCalls) - waiting) :
              /\ toolCalls[i].outcome \in {"success", "failure"}
              /\ Folded(toolCalls[i].id)
        /\ Len(DispatchEvents) = 2 * Len(toolCalls) - waiting
        /\ \A k \in 1..Len(DispatchEvents) :
              DispatchEvents[k].type = IF k % 2 = 1 THEN "tool_use" ELSE "new_message"
        /\ \A i \in 1..Len(toolCalls) : toolCalls[i].round <= modelCalls
        /\ pc = "streaming" => \A i \in 1..Len(toolCalls) : toolCalls[i].round < modelCalls

\* C20: every new_message event signals that another model round is coming: in a
\* session without a model failure, each new_message event is followed by a
\* further model invocation before end_turn is emitted, also when the tool call
\* happens in the 6th round.
C20_NewMessageThenModelRound ==
    (Emitted("end_turn") /\ thrown \notin ModelErrors) =>
        /\ \A k \in 1..Len(events) :
              events[k].type = "new_message" =>
                  \E j \in (k + 1)..Len(events) : events[j].type = "message_complete"
        /\ \A i \in 1..Len(toolCalls) :
              toolCalls[i].outcome \in {"success", "failure"} => modelCalls > toolCalls[i].round

\* a tool was dispatched in the round
Dispatched(round) == \E i \in 1..Len(toolCalls) : toolCalls[i].round = round

\* C21 as stated: a second or later model invocation of a session happens only
\* after at least one tool dispatch since the previous model invocation, so a
\* round whose message holds no tool-use request is the last round, whatever its
\* stop reason.
C21_ToolDispatchBetweenRounds ==
    \A round \in 1..(modelCalls - 1) : Dispatched(round)

\* C21, amended: a second or later model invocation happens only after a round
\* that returned a stop reason other than end_turn and was not the 6th; a tool
\* dispatch need not lie in between: a round without tool-use request is the last
\* round when its stop reason is end_turn or absent, and is followed by another
\* model invocation when it was stopped by max_tokens before the 6th round.
C21_RoundsFollowStopReason ==
    /\ \A round \in 1..(modelCalls - 1) :
          /\ round < 6
          /\ stopLog[round] \notin {EndTurn, None}
          /\ ~Dispatched(round) => stopLog[round] = Str(<<"max_tokens">>)
    /\ (pc \in {"exit", "returned", "done"} /\ thrown = None /\ stopLog /= <<>>) =>
          (stopLog[Len(stopLog)] \in {EndTurn, None} \/ Len(stopLog) = 6)

\* a text-only round cut by max_tokens, then a tool round, then the answer
C21_Witness ==
    /\ pc = "done"
    /\ stopLog = <<Str(<<"max_tokens">>), Str(<<"tool_use">>), EndTurn>>
    /\ ~Dispatched(1)
    /\ Dispatched(2)
    /\ Emitted("end_turn")

AssistantWriteFails ==
    /\ store' = store
    /\ \E w \in pending : w.role = "assistant" /\ pending' = pending \ {w}

\* C23: a failure of the store write of a completed assistant turn does not abort
\* the session: the failure changes nothing of the session (WorkingHistory, the
\* events sent, the tools dispatched, the position in the loop), and no store
\* failure is ever thrown once the loop has been entered.
C23_AssistantWriteFailureIgnored ==
    /\ [][AssistantWriteFails =>
            UNCHANGED <<pc, conversationHistory, events, thrown, response, closed,
                        finalMessage, safetyCounter, toolIdx, toolCalls, modelCalls,
                        productsToDisplay, stopLog>>]_vars
    /\ [](thrown = StoreError => modelCalls = 0)

\* the write of the first round's assistant turn failed: its tool was dispatched
\* and its result stored, a second round ran and end_turn was emitted
C23_Witness ==
    /\ pc = "done"
    /\ pending = {}
    /\ thrown = None
    /\ Emitted("end_turn")
    /\ modelCalls = 2
    /\ Len(toolCalls) = 1
    /\ Folded(1)
    /\ \E j \in 1..Len(store[conversationId]) :
          HasBlock(store[conversationId][j], "tool_result", "tool_use_id", 1)
    /\ ~\E j \in 1..Len(store[conversationId]) :
          HasBlock(store[conversationId][j], "tool_use", "id", 1)

\* C24: the failure of any store write of a session, the write of the incoming
\* user message included, is logged and ignored: no store failure is raised into
\* the session, so none ends it before the model is invoked and none produces an
\* error event or an error response.
C24_StoreWriteFailureIgnored ==
    /\ thrown /= StoreError
    /\ \A k \in 1..Len(events) : events[k] /= StreamingErrorEvent(StoreError)
    /\ response /= ErrorResponse(StoreError)

\* what a session does apart from what reaches its client
SessionCourse ==
    <<pc, thrown, modelCalls, toolCalls, stopLog, conversationHistory, store, pending,
      productsToDisplay, finalMessage, safetyCounter, toolIdx, events, response>>

\* C25: in streaming mode a failed push never aborts the session: the client's
\* going away changes nothing of the session's course, every later send enqueues
\* nothing and raises nothing, and the session runs to its end, a normal exit
\* sending end_turn as with a client that stayed.
C25_DisconnectIgnored ==
    /\ [][clientGone' /= clientGone => UNCHANGED SessionCourse]_vars
    /\ [][clientGone.gone => (Enqueued' = Enqueued /\ clientGone' = clientGone)]_vars
    /\ [](clientGone.gone /\ pc = "done" =>
            /\ closed
            /\ thrown = None /\ modelCalls >= 1 => Count("end_turn") = 1)
    /\ (clientGone.gone ~> pc = "done")

\* the client went away after the id event: the session still ran two model
\* rounds and a tool call, stored its turns and sent end_turn to nobody
C25_Witness ==
    /\ clientGone.gone
    /\ clientGone.sent = 1
    /\ Enqueued = <<IdEvent(conversationId)>>
    /\ pc = "done"
    /\ thrown = None
    /\ modelCalls = 2
    /\ Len(toolCalls) = 1
    /\ Folded(1)
    /\ Emitted("end_turn")
    /\ pending = {}
    /\ Len(store[conversationId]) = Len(conversationHistory)

\* C26: whenever the Authorization Gate returns an authorization URL, a PKCE
\* verifier is persisted under the state conversationId-shopId, which is the state
\* the URL carries, and the URL's code challenge is the S256 challenge of that
\* persisted verifier: no URL is issued whose verifier is not stored.
C26_VerifierStoredForIssuedUrl ==
    authResponse /= None =>
        /\ authResponse.url.state = <<conversationId, "-", request.shopId>>
        /\ authResponse.url.code_challenge_method = "S256"
        /\ \E v \in codeVerifiers :
              /\ v.state = authResponse.url.state
              /\ generateCodeChallenge(v.verifier) = authResponse.url.code_challenge

\* the tool calls of the session that returned a Success outcome
Successes == {i \in 1..Len(toolCalls) : toolCalls[i].outcome = "success"}

\* C27: only the success-reconciliation path changes the product-display
\* accumulator: it changes in no step but the return of a tool call with a Success
\* outcome, which appends to it, so it holds one display item per successful tool
\* call of the session and so does the terminal product_results event.
C27_OnlySuccessChangesProducts ==
    /\ [][productsToDisplay' /= productsToDisplay =>
            /\ pc = "tool_wait"
            /\ toolCalls'[Len(toolCalls')].outcome = "success"
            /\ IsPrefix(productsToDisplay, productsToDisplay')]_vars
    /\ [](/\ Len(productsToDisplay) = Cardinality(Successes)
          /\ \A k \in 1..Len(events) :
                events[k].type = "product_results" =>
                    /\ events[k].products = productsToDisplay
                    /\ Successes /= {})

\* a session whose first tool call failed and whose second succeeded: the
\* terminal product_results carries the one item of the successful call
C27_Witness ==
    /\ pc = "done"
    /\ Len(toolCalls) = 2
    /\ toolCalls[1].outcome = "failure"
    /\ toolCalls[2].outcome = "success"
    /\ productsToDisplay = <<"p1">>
    /\ events[Len(events)] = ProductEvent(<<"p1">>)

\* the blocks of the given type in turn i of WorkingHistory
HistoryBlocks(i, type) ==
    LET items == conversationHistory[i].content.items
    IN  {items[k] : k \in {k \in 1..Len(items) : items[k].t = "object" /\ items[k].type = type}}

\* an earlier session can leave OrphanResultLog: a session on an empty log whose
\* first assistant write failed ends with exactly that log in the store
EarlierSessionLeavesOrphan ==
    /\ pc = "done"
    /\ pending = {}
    /\ thrown = None
    /\ modelCalls = 2
    /\ store["c1"] = OrphanResultLog

\* C28: at every model invocation, whatever earlier sessions left in the
\* conversation's log, every ToolUse block of WorkingHistory is answered by a
\* ToolResult with its call id in a later turn, and every ToolResult is preceded by
\* an assistant turn that holds the ToolUse with that id.
C28_ToolProtocolAtInvocation ==
    pc = "streaming" =>
        /\ \A i \in 1..Len(conversationHistory) : \A use \in HistoryBlocks(i, "tool_use") :
              \E j \in (i + 1)..Len(conversationHistory) :
                  \E result \in HistoryBlocks(j, "tool_result") : result.tool_use_id = use.id
        /\ \A j \in 1..Len(conversationHistory) : \A result \in HistoryBlocks(j, "tool_result") :
              \E i \in 1..(j - 1) :
                  /\ conversationHistory[i].role = "assistant"
                  /\ \E use \in HistoryBlocks(i, "tool_use") : use.id = result.tool_use_id

\* the incoming message of session s as a turn of WorkingHistory
OwnTurn(s) == FormatDbMessage(StoredTurn("user", TrimmedMessage(call.body[s])))

\* C29: at the first model invocation of every session the last turn of
\* WorkingHistory is that session's own incoming user message, also when two
\* sessions for the same conversation id run concurrently and interleave their
\* store writes and history reads.
C29_OwnMessageLast ==
    \A s \in Sessions :
        call.at[s] = "invoke" =>
            /\ call.history[s] /= <<>>
            /\ call.history[s][Len(call.history[s])] = OwnTurn(s)

\* session s was sent without a usable conversation id
NoClientId(s) == ConversationIdOf(call.body[s]) = call.body[s].now

\* C30: two requests with no client-supplied conversation id never share a
\* conversation: their time-derived ids are distinct and neither session reads
\* the other's turns, also when both requests arrive at the same clock value.
C30_DistinctConversations ==
    \A s, t \in Sessions :
        (s /= t /\ NoClientId(s) /\ NoClientId(t)) =>
            /\ (call.at[s] /= "arrive" /\ call.at[t] /= "arrive") => call.id[s] /= call.id[t]
            /\ call.at[s] = "invoke" => call.history[s] = <<OwnTurn(s)>>

====
